---- MODULE Spec2Model ----
(***************************************************************************)
(* Song ingestion and synchronisation pipeline of the audio player         *)
(* (handlePickerChange / handleAddFolder / handleAddSong over the Dexie    *)
(* table `songs`), together with the user's song edits and deletions, and  *)
(* the picker handler of the uploader page src/src/App.tsx.                *)
(*                                                                         *)
(* Strings are sequences of one-character strings; NUL stands for the      *)
(* character \u0000 and Undefined for the JavaScript value undefined.      *)
(***************************************************************************)
EXTENDS Integers, Sequences, FiniteSets, TLC

VARIABLES
    app,              \* the page that runs: "player" or "uploader" (src/src/App.tsx)
    songs,            \* rows of the Dexie table db.songs
    driveTs,          \* Google Drive: current version (modifiedTime) of each file
    tasks,            \* every handleAddSong / handleAddFolder invocation started so far
    calls,            \* every handlePickerChange invocation started so far
    loadingNewSongs,  \* React state loadingNewSongs
    lastUpdated,      \* globalLastUpdated: 0 is 'Never', c the date set by call c
    userDeleted,      \* history: ids the user has deleted with the trash icon
    allSongs,         \* useLiveQuery(db.songs.toArray): the rows last delivered to the
                      \* page; not loaded stands for undefined
    songToCover,      \* React state songToCover: the entries {id, cover, lastUpdatedUtc}
    objectURLs,       \* every URL.createObjectURL so far, with its revokeObjectURL calls
    albums,           \* globalAlbums: the list of albums
    currentAlbum,     \* hookstate currentAlbum: name of the active album, <<>> for ''
    currentSong,      \* React state currentSong: {} for null, else {song}
    playing,          \* React state playing
    audioSrc,         \* audio.src: 0 for none, else an index of objectURLs
    onended,          \* audio.onended: the currentSong its playSong closure captured
    endedQueued,      \* the audio element has queued its ended event
    loadedBy,         \* history: how the loaded song was selected ("next" or "row")
    notice,           \* the notification the last player action showed
    filterIn,         \* filterSongs on its own: the album and the song it is given
    filterOut,        \* filterSongs on its own: its answer
    formatIn,         \* formatSongToStorage on its own: the file it is given
    modal             \* each Modal of the page: its prop show, its state and its element

\* state of the player page that ingestion does not touch
player == <<allSongs, songToCover, objectURLs, albums, currentAlbum, currentSong,
            playing, audioSrc, onended, endedQueued, loadedBy, notice, filterIn,
            filterOut, formatIn, modal>>

vars == <<app, songs, driveTs, tasks, calls, loadingNewSongs, lastUpdated, userDeleted,
          player>>

----------------------------------------------------------------------------
(* Bounds *)

\* size of a session: the invocations of handleAddSong and handleAddFolder its
\* picker selections lead to, plus the changes made to files on the Drive
MaxSession == 6

\* entries on a page of a folder listing (pageSize is 1000 in the program;
\* the folders of the model are scaled with it)
PageSize == 2

\* rules of an album handed to filterSongs on its own
MaxRules == 2

\* songs loaded into the audio element in a session
MaxPlays == 3

----------------------------------------------------------------------------
(* Strings *)

NUL == "0"
Undefined == <<"undefined">>

\* s.replaceAll('\u0000', '')
StripNul(s) == SelectSeq(s, LAMBDA ch : ch # NUL)

\* s?.replaceAll('\u0000', '')
OptStripNul(s) == IF s = Undefined THEN Undefined ELSE StripNul(s)

\* s.split('.')[0]: everything before the first dot
RECURSIVE SplitDotFirst(_)
SplitDotFirst(s) ==
    IF s = <<>> \/ Head(s) = "." THEN <<>>
    ELSE <<Head(s)>> \o SplitDotFirst(Tail(s))

\* !s for a string or undefined
Falsy(s) == s = Undefined \/ s = <<>>

----------------------------------------------------------------------------
(* Google Drive (external collaborator) *)

FileIds == {"a", "b", "c"}
FolderIds == {"F", "G", "H"}
FolderMime == "application/vnd.google-apps.folder"
AudioMime == "audio/mpeg"

\* the audio files and folders whose parent is the folder
DriveChildren(folder) ==
    CASE folder = "F" -> <<"a", "G">>
      [] folder = "G" -> <<"b">>
      [] folder = "H" -> <<"a", "b", "c">>

\* gapi.client.drive.files.list({pageSize, q, fields}): the first page of the
\* children, files(id, modifiedTime, name, mimeType); the page of 1000
\* entries is scaled to PageSize
DriveFilesList(folder) ==
    LET files == DriveChildren(folder)
    IN  SubSeq(files, 1, IF Len(files) < PageSize THEN Len(files) ELSE PageSize)

DriveName(id) ==
    IF id = "a" THEN <<"a", ".", "b", ".", "m">> ELSE <<"b", ".", "m">>

\* the ID3 tags id3-parser finds in version v of file id
DriveMeta(id, v) ==
    IF v % 2 = 1
    THEN [title  |-> IF id = "a" THEN <<"S", NUL>> ELSE Undefined,
          artist |-> <<"x">>,
          album  |-> Undefined,
          genre  |-> <<"R", NUL>>,
          year   |-> Undefined,
          image  |-> TRUE]
    ELSE [title  |-> IF id = "a" THEN <<>> ELSE <<"T">>,
          artist |-> Undefined,
          album  |-> <<"L">>,
          genre  |-> Undefined,
          year   |-> <<"9">>,
          image  |-> (id = "b")]

\* the bytes of version v of file id
DriveBlob(id, v) == <<"blob", id, v>>

----------------------------------------------------------------------------
(* Dexie table songs: '&id, title, album' *)

DbGet(S, id) == {r \in S : r.id = id}

\* add without the unique primary key
DbAddNoKey(S, rec) == S \cup {rec}

\* Table.add: rejects with a ConstraintError when the key exists
DbAdd(S, rec) ==
    IF \E r \in S : r.id = rec.id THEN S ELSE S \cup {rec}

\* an update that skips the key paths whose value is undefined
DbUpdateDefined(S, id, changes) ==
    {IF r.id = id
     THEN [f \in DOMAIN r |->
              IF f \in DOMAIN changes /\ (f \in {"id", "lastEditedUtc"} \/ changes[f] # Undefined)
              THEN changes[f] ELSE r[f]]
     ELSE r : r \in S}

\* Table.update(key, changes): sets every key path of changes on the row
\* with that key, an undefined value removes the property; no row: no-op
DbUpdate(S, id, changes) ==
    {IF r.id = id
     THEN [f \in DOMAIN r |-> IF f \in DOMAIN changes THEN changes[f] ELSE r[f]]
     ELSE r : r \in S}

DbDelete(S, id) == {r \in S : r.id # id}

----------------------------------------------------------------------------
(* formatSongToStorage *)

formatSongToStorage(song, blob, metaData) ==
    LET title == IF Falsy(metaData.title)
                 THEN SplitDotFirst(song.name)
                 ELSE metaData.title
    IN  [id            |-> song.id,
         blob          |-> blob,
         title         |-> StripNul(title),
         lastEditedUtc |-> song.lastEditedUtc,
         artist        |-> OptStripNul(metaData.artist),
         album         |-> OptStripNul(metaData.album),
         genre         |-> OptStripNul(metaData.genre),
         year          |-> OptStripNul(metaData.year),
         cover         |-> IF metaData.image
                           THEN <<"cover", song.id, blob[3]>>
                           ELSE Undefined]

----------------------------------------------------------------------------
(* Promises *)

\* Promise.all over promises with the given states
PromiseAll(states) ==
    IF "rejected" \in states THEN "rejected"
    ELSE IF states \subseteq {"fulfilled"} THEN "fulfilled"
    ELSE "pending"

Children(tk, t) == {u \in DOMAIN tk : tk[u].parent = t}

\* state of the promise returned by invocation t of handleAddSong or of
\* handleAddFolder; a folder that has its listing awaits Promise.all over
\* the callbacks of its children, each of which awaits its child
RECURSIVE Status(_, _)
Status(tk, t) ==
    IF tk[t].kind = "song" THEN
        IF tk[t].pc \in {"skipped", "written"} THEN "fulfilled"
        ELSE IF tk[t].pc = "rejected" THEN "rejected"
        ELSE "pending"
    ELSE IF tk[t].pc = "list" THEN "pending"
    ELSE IF tk[t].pc = "rejected" THEN "rejected"
    ELSE PromiseAll({Status(tk, u) : u \in Children(tk, t)})

\* state of the promise of the callback data.map runs on a picked document:
\* a song is awaited, handleAddFolder is called without await
PickedStatus(tk, t) ==
    IF tk[t].kind = "folder" THEN "fulfilled" ELSE Status(tk, t)

Picked(tk, c) == {t \in DOMAIN tk : tk[t].call = c /\ tk[t].parent = 0}

\* state of the promise handlePickerChange awaits
AwaitedStatus(tk, c) == PromiseAll({PickedStatus(tk, t) : t \in Picked(tk, c)})

----------------------------------------------------------------------------
(* handlePickerChange: what follows its await *)

\* a catch block that reports the error and leaves the call waiting
HandlePickerResumeTwice(cl, st) ==
    IF cl.state # "pending" /\ st # "rejected" THEN cl
    ELSE IF st = "fulfilled"
    THEN [cl EXCEPT !.state = "fulfilled", !.notify = @ + 1]
    ELSE IF st = "rejected"
    THEN [cl EXCEPT !.error = @ + 1]
    ELSE cl

\* the call record once the awaited promise has state st
HandlePickerResume(cl, st) ==
    IF cl.state # "pending" THEN cl
    ELSE IF st = "fulfilled"
    THEN [cl EXCEPT !.state = "fulfilled", !.notify = @ + 1]
    ELSE IF st = "rejected"
    THEN [cl EXCEPT !.state = "rejected", !.error = @ + 1]
    ELSE cl

\* continuations that set the last-synced value in the catch block as well
SettleStampsFailure(tk, cs, loading) ==
    LET ncs == [c \in DOMAIN cs |-> HandlePickerResume(cs[c], AwaitedStatus(tk, c))]
        done == {c \in DOMAIN cs : cs[c].state = "pending" /\ ncs[c].state = "fulfilled"}
        over == {c \in DOMAIN cs : cs[c].state = "pending" /\ ncs[c].state # "pending"}
    IN  /\ calls' = ncs
        /\ loadingNewSongs' = IF done # {} THEN FALSE ELSE loading
        /\ lastUpdated' = IF over # {} THEN CHOOSE c \in over : TRUE ELSE lastUpdated

\* runs the continuations of every call over the tasks tk
Settle(tk, cs, loading) ==
    LET ncs == [c \in DOMAIN cs |-> HandlePickerResume(cs[c], AwaitedStatus(tk, c))]
        done == {c \in DOMAIN cs : cs[c].state = "pending" /\ ncs[c].state = "fulfilled"}
    IN  /\ calls' = ncs
        /\ loadingNewSongs' = IF done # {} THEN FALSE ELSE loading
        /\ lastUpdated' = IF done # {} THEN CHOOSE c \in done : TRUE ELSE lastUpdated

----------------------------------------------------------------------------
(* Initial state *)

Null == <<"null">>

\* the Modal components the page renders
Modals == {"createAlbum", "editSong"}

\* a Modal after its first render and effect: show false, useState(false)
\* for pseudoShow, useState(true) for modalDeleted, no element
ModalClosed ==
    [show |-> FALSE, modalDeleted |-> TRUE, pseudoShow |-> FALSE, locked |-> FALSE,
     effect |-> FALSE, opacity |-> 0, transition |-> FALSE]

\* the player page before the first delivery of the live query
PlayerInit ==
    /\ allSongs = [loaded |-> FALSE, rows |-> {}]
    /\ songToCover = {}
    /\ objectURLs = <<>>
    /\ albums = <<>>
    /\ currentAlbum = <<>>
    /\ currentSong = {}
    /\ playing = FALSE
    /\ audioSrc = 0
    /\ onended = {}
    /\ endedQueued = FALSE
    /\ loadedBy = "none"
    /\ notice = ""
    /\ filterIn = Null
    /\ filterOut = [done |-> FALSE, included |-> FALSE]
    /\ formatIn = Null
    /\ modal = [m \in Modals |-> ModalClosed]

Init ==
    /\ app = "player"
    /\ songs = {}
    /\ driveTs = [id \in FileIds |-> 1]
    /\ tasks = <<>>
    /\ calls = <<>>
    /\ loadingNewSongs = FALSE
    /\ lastUpdated = 0
    /\ userDeleted = {}
    /\ PlayerInit

----------------------------------------------------------------------------
(* The picker *)

Doc(id) ==
    [id |-> id,
     mimeType |-> IF id \in FolderIds THEN FolderMime ELSE AudioMime]

\* selections the user makes in the picker
Picks ==
    {<<Doc("a"), Doc("b")>>, <<Doc("F")>>, <<Doc("a"), Doc("F")>>, <<Doc("H")>>}

NewTask(c, parent, id, isFolder) ==
    [call          |-> c,
     parent        |-> parent,
     kind          |-> IF isFolder THEN "folder" ELSE "song",
     id            |-> id,
     name          |-> IF isFolder THEN <<>> ELSE DriveName(id),
     lastEditedUtc |-> IF isFolder THEN 0 ELSE driveTs[id],
     pc            |-> IF isFolder THEN "list" ELSE "get",
     duplicate     |-> 0,
     fetched       |-> FALSE,
     blob          |-> Undefined]

\* the invocations a picked or listed document leads to
RECURSIVE Cost(_)
Cost(id) ==
    IF id \in FileIds THEN 1
    ELSE LET files == DriveFilesList(id)
             F[i \in 0..Len(files)] == IF i = 0 THEN 0 ELSE F[i - 1] + Cost(files[i])
         IN  1 + F[Len(files)]

Committed(tk) ==
    LET F[i \in 0..Len(tk)] ==
            IF i = 0 THEN 0
            ELSE F[i - 1] + IF tk[i].parent = 0 THEN Cost(tk[i].id) ELSE 0
    IN  F[Len(tk)]

\* the changes made to files on the Drive so far
Mods(ts) == ts["a"] + ts["b"] + ts["c"] - Cardinality(FileIds)

SessionSize(tk, ts) == Committed(tk) + Mods(ts)

\* handlePickerChange up to its await
handlePickerChange(data) ==
    /\ app = "player"
    /\ ~loadingNewSongs
    /\ LET c == Len(calls) + 1
           tk == tasks \o [i \in 1..Len(data) |->
                     NewTask(c, 0, data[i].id, data[i].mimeType = FolderMime)]
       IN  /\ SessionSize(tk, driveTs) <= MaxSession
           /\ tasks' = tk
           /\ Settle(tk, Append(calls, [state |-> "pending", notify |-> 0, error |-> 0]), TRUE)
    /\ UNCHANGED <<player, app, songs, driveTs, userDeleted>>

----------------------------------------------------------------------------
(* handleAddSong *)

\* the comparison of line 201 with > for >=
SkipsStrict(duplicate, song) ==
    duplicate # 0 /\ duplicate > song.lastEditedUtc

\* duplicate && duplicate.lastEditedUtc >= song.lastEditedUtc
Skips(duplicate, song) ==
    duplicate # 0 /\ duplicate >= song.lastEditedUtc

\* what the handler keeps of the row db.songs.get returns: 0 when there is
\* none (undefined), else its lastEditedUtc
LastEdited(rows) ==
    IF rows = {} THEN 0 ELSE (CHOOSE r \in rows : TRUE).lastEditedUtc

\* await db.songs.get(song.id) and the test on the duplicate
AddSongGet(t) ==
    /\ tasks[t].kind = "song" /\ tasks[t].pc = "get"
    /\ LET duplicate == LastEdited(DbGet(songs, tasks[t].id))
           tk == IF Skips(duplicate, tasks[t])
                 THEN [tasks EXCEPT ![t].pc = "skipped"]
                 ELSE [tasks EXCEPT ![t].pc = "fetch", ![t].duplicate = duplicate,
                                    ![t].fetched = TRUE]
       IN  /\ tasks' = tk
           /\ Settle(tk, calls, loadingNewSongs)
    /\ UNCHANGED <<player, app, songs, driveTs, userDeleted>>

\* await fetch(...).then((res) => res.blob()) yields the current content
AddSongFetch(t) ==
    /\ tasks[t].kind = "song" /\ tasks[t].pc = "fetch"
    /\ LET tk == [tasks EXCEPT ![t].blob = DriveBlob(tasks[t].id, driveTs[tasks[t].id]),
                               ![t].pc = "parse"]
       IN  /\ tasks' = tk
           /\ Settle(tk, calls, loadingNewSongs)
    /\ UNCHANGED <<player, app, songs, driveTs, userDeleted>>

\* the fetch rejects
AddSongFetchFail(t) ==
    /\ tasks[t].kind = "song" /\ tasks[t].pc = "fetch"
    /\ LET tk == [tasks EXCEPT ![t].pc = "rejected", ![t].duplicate = 0,
                               ![t].blob = Undefined]
       IN  /\ tasks' = tk
           /\ Settle(tk, calls, loadingNewSongs)
    /\ UNCHANGED <<player, app, songs, driveTs, userDeleted>>

\* the record lines 214-221 write for task record s
Stored(s) == formatSongToStorage(s, s.blob, DriveMeta(s.id, s.blob[3]))

\* a write that is dropped once another document of the call has failed
WriteSongAllOrNothing(S, s) ==
    IF \E u \in DOMAIN tasks : tasks[u].call = s.call /\ tasks[u].pc = "rejected"
    THEN S
    ELSE IF s.duplicate # 0
    THEN DbUpdate(S, s.id, Stored(s))
    ELSE DbAdd(S, Stored(s))

\* lines 214-221 on the table S
WriteSong(S, s) ==
    IF s.duplicate # 0
    THEN DbUpdate(S, s.id, Stored(s))
    ELSE DbAdd(S, Stored(s))

\* parse returns tags; the record is updated or added, the call returns
AddSongWrite(t) ==
    /\ tasks[t].kind = "song" /\ tasks[t].pc = "parse"
    /\ songs' = WriteSong(songs, tasks[t])
    /\ LET tk == [tasks EXCEPT ![t].pc = "written", ![t].duplicate = 0,
                               ![t].blob = Undefined]
       IN  /\ tasks' = tk
           /\ Settle(tk, calls, loadingNewSongs)
    /\ UNCHANGED <<player, app, driveTs, userDeleted>>

\* parse returns false: throw new Error('Invalid metadata')
AddSongParseFail(t) ==
    /\ tasks[t].kind = "song" /\ tasks[t].pc = "parse"
    /\ LET tk == [tasks EXCEPT ![t].pc = "rejected", ![t].duplicate = 0,
                               ![t].blob = Undefined]
       IN  /\ tasks' = tk
           /\ Settle(tk, calls, loadingNewSongs)
    /\ UNCHANGED <<player, app, songs, driveTs, userDeleted>>

----------------------------------------------------------------------------
(* handleAddFolder *)

\* a listing whose sub-folders are not entered
AddFolderListFlat(t) ==
    /\ tasks[t].kind = "folder" /\ tasks[t].pc = "list"
    /\ LET files == SelectSeq(DriveFilesList(tasks[t].id), LAMBDA f : f \in FileIds)
           tk == [tasks EXCEPT ![t].pc = "all"] \o
                 [i \in 1..Len(files) |->
                     NewTask(tasks[t].call, t, files[i], FALSE)]
       IN  /\ tasks' = tk
           /\ Settle(tk, calls, loadingNewSongs)
    /\ UNCHANGED <<player, app, songs, driveTs, userDeleted>>

\* the listing arrives; every child starts handleAddFolder or handleAddSong
AddFolderList(t) ==
    /\ tasks[t].kind = "folder" /\ tasks[t].pc = "list"
    /\ LET files == DriveFilesList(tasks[t].id)
           tk == [tasks EXCEPT ![t].pc = "all"] \o
                 [i \in 1..Len(files) |->
                     NewTask(tasks[t].call, t, files[i], files[i] \in FolderIds)]
       IN  /\ tasks' = tk
           /\ Settle(tk, calls, loadingNewSongs)
    /\ UNCHANGED <<player, app, songs, driveTs, userDeleted>>

\* gapi.client.drive.files.list rejects
AddFolderListFail(t) ==
    /\ tasks[t].kind = "folder" /\ tasks[t].pc = "list"
    /\ LET tk == [tasks EXCEPT ![t].pc = "rejected", ![t].duplicate = 0,
                               ![t].blob = Undefined]
       IN  /\ tasks' = tk
           /\ Settle(tk, calls, loadingNewSongs)
    /\ UNCHANGED <<player, app, songs, driveTs, userDeleted>>

----------------------------------------------------------------------------
(* The user and the Drive *)

\* trash icon of a song row: db.songs.delete(song.id)
DeleteSong(id) ==
    /\ app = "player"
    /\ DbGet(songs, id) # {}
    /\ songs' = DbDelete(songs, id)
    /\ userDeleted' = userDeleted \cup {id}
    /\ UNCHANGED <<player, app, driveTs, tasks, calls, loadingNewSongs, lastUpdated>>

OrEmpty(s) == IF s = Undefined THEN <<>> ELSE s

\* an edit form that also carries an emptied cover
EditSongFormNoCover(r, title) ==
    [id     |-> r.id,
     title  |-> title,
     album  |-> OrEmpty(r.album),
     artist |-> OrEmpty(r.artist),
     genre  |-> OrEmpty(r.genre),
     cover  |-> Undefined]

\* the edit form of row r with the title typed by the user
EditSongForm(r, title) ==
    [id     |-> r.id,
     title  |-> title,
     album  |-> OrEmpty(r.album),
     artist |-> OrEmpty(r.artist),
     genre  |-> OrEmpty(r.genre)]

EditTitles == {<<"E">>}

\* pencil icon and submit: db.songs.update(editSongForm.id, editSongForm)
EditSong(id, title) ==
    /\ app = "player"
    /\ \E r \in DbGet(songs, id) :
          songs' = DbUpdate(songs, id, EditSongForm(r, title))
    /\ UNCHANGED <<player, app, driveTs, tasks, calls, loadingNewSongs, lastUpdated, userDeleted>>

\* the files that are changed on the Drive while the page is open
ChangingIds == {"a", "b"}

\* the file is changed on the Drive: its modifiedTime moves on
DriveModify(id) ==
    /\ SessionSize(tasks, driveTs) < MaxSession
    /\ driveTs' = [driveTs EXCEPT ![id] = @ + 1]
    /\ UNCHANGED <<player, app, songs, tasks, calls, loadingNewSongs, lastUpdated, userDeleted>>

----------------------------------------------------------------------------
(* The uploader page src/src/App.tsx: handlePickerChange fetches and parses  *)
(* every picked file, and once all have succeeded looks each one up and      *)
(* adds or updates it.                                                       *)

\* formatSongToStorage of src/src/App.tsx: no null characters are stripped
formatSongToStorageApp(song, blob, metaData) ==
    [id            |-> song.id,
     blob          |-> blob,
     title         |-> IF Falsy(metaData.title)
                       THEN SplitDotFirst(song.name)
                       ELSE metaData.title,
     lastEditedUtc |-> song.lastEditedUtc,
     artist        |-> metaData.artist,
     album         |-> metaData.album,
     genre         |-> metaData.genre,
     year          |-> metaData.year,
     cover         |-> IF metaData.image
                       THEN <<"cover", song.id, blob[3]>>
                       ELSE Undefined]

\* selections the user makes in the picker of the uploader (files only)
AppPicks == {<<Doc("a"), Doc("b")>>}

\* state of the promise data.map builds for picked file t
AppStatus(tk, t) ==
    IF tk[t].pc = "fetch" THEN "pending"
    ELSE IF tk[t].pc = "rejected" THEN "rejected"
    ELSE "fulfilled"

\* what follows await Promise.all: the forEach starts the lookup of every
\* file, or the catch block reports the error
AppSettle(tk, cs) ==
    LET st(c) == PromiseAll({AppStatus(tk, t) : t \in Picked(tk, c)})
        now(c) == IF cs[c].state = "pending" THEN st(c) ELSE "settled"
    IN  /\ calls' = [c \in DOMAIN cs |->
                        IF now(c) = "fulfilled" THEN [cs[c] EXCEPT !.state = "fulfilled"]
                        ELSE IF now(c) = "rejected"
                        THEN [cs[c] EXCEPT !.state = "rejected", !.error = @ + 1]
                        ELSE cs[c]]
        /\ tasks' = [t \in DOMAIN tk |->
                        IF now(tk[t].call) = "fulfilled"
                        THEN [tk[t] EXCEPT !.pc = "get"]
                        ELSE tk[t]]

\* handlePickerChange of the uploader up to its await: every fetch is issued
AppPickerChange(data) ==
    /\ app = "uploader"
    /\ LET c == Len(calls) + 1
           tk == tasks \o [i \in 1..Len(data) |->
                     [NewTask(c, 0, data[i].id, FALSE)
                         EXCEPT !.kind = "upload", !.pc = "fetch", !.fetched = TRUE]]
       IN  /\ SessionSize(tk, driveTs) <= MaxSession
           /\ AppSettle(tk, Append(calls, [state |-> "pending", notify |-> 0, error |-> 0]))
    /\ UNCHANGED <<player, app, songs, driveTs, loadingNewSongs, lastUpdated, userDeleted>>

\* the promise of file t resolves: the fetch has answered with the current
\* content and parse has returned tags (no other invocation reads anything
\* between the two awaits, they are one step here)
AppFetch(t) ==
    /\ tasks[t].kind = "upload" /\ tasks[t].pc = "fetch"
    /\ AppSettle([tasks EXCEPT ![t].blob = DriveBlob(tasks[t].id, driveTs[tasks[t].id]),
                                ![t].pc = "resolved"], calls)
    /\ UNCHANGED <<player, app, songs, driveTs, loadingNewSongs, lastUpdated, userDeleted>>

\* the fetch rejects, or parse returns false (Invalid metadata): reject(e)
AppFetchFail(t) ==
    /\ tasks[t].kind = "upload" /\ tasks[t].pc = "fetch"
    /\ AppSettle([tasks EXCEPT ![t].pc = "rejected"], calls)
    /\ UNCHANGED <<player, app, songs, driveTs, loadingNewSongs, lastUpdated, userDeleted>>

\* the comparison of line 111 with <= for <
AppSkipsGreater(duplicate, song) ==
    duplicate # 0 /\ ~(duplicate <= song.lastEditedUtc)

\* a row is left alone unless its lastEditedUtc is smaller than the file's
AppSkips(duplicate, song) ==
    duplicate # 0 /\ ~(duplicate < song.lastEditedUtc)

\* const duplicate = await db.songs.get(song.id) and the tests on it
AppGet(t) ==
    /\ tasks[t].kind = "upload" /\ tasks[t].pc = "get"
    /\ LET duplicate == LastEdited(DbGet(songs, tasks[t].id))
       IN  tasks' = IF AppSkips(duplicate, tasks[t])
                    THEN [tasks EXCEPT ![t].pc = "skipped", ![t].blob = Undefined]
                    ELSE [tasks EXCEPT ![t].pc = "write", ![t].duplicate = duplicate]
    /\ UNCHANGED <<player, app, songs, driveTs, calls, loadingNewSongs, lastUpdated, userDeleted>>

\* the record the uploader writes for task record s
AppStored(s) == formatSongToStorageApp(s, s.blob, DriveMeta(s.id, s.blob[3]))

\* db.songs.update(song.id, ...) or db.songs.add(...) reaches the table
AppWrite(t) ==
    /\ tasks[t].kind = "upload" /\ tasks[t].pc = "write"
    /\ songs' = IF tasks[t].duplicate # 0
                THEN DbUpdate(songs, tasks[t].id, AppStored(tasks[t]))
                ELSE DbAdd(songs, AppStored(tasks[t]))
    /\ tasks' = [tasks EXCEPT ![t].pc = "written", ![t].duplicate = 0,
                              ![t].blob = Undefined]
    /\ UNCHANGED <<player, app, driveTs, calls, loadingNewSongs, lastUpdated, userDeleted>>

----------------------------------------------------------------------------

Next ==
    \/ \E data \in Picks : handlePickerChange(data)
    \/ \E t \in DOMAIN tasks : AddSongGet(t)
    \/ \E t \in DOMAIN tasks : AddSongFetch(t)
    \/ \E t \in DOMAIN tasks : AddSongFetchFail(t)
    \/ \E t \in DOMAIN tasks : AddSongWrite(t)
    \/ \E t \in DOMAIN tasks : AddSongParseFail(t)
    \/ \E t \in DOMAIN tasks : AddFolderList(t)
    \/ \E t \in DOMAIN tasks : AddFolderListFail(t)
    \/ \E id \in FileIds : DeleteSong(id)
    \/ \E id \in FileIds, title \in EditTitles : EditSong(id, title)
    \/ \E id \in ChangingIds : DriveModify(id)

Spec == Init /\ [][Next]_vars

\* a pending await of some invocation delivers its answer or its rejection
IngestionStep ==
    \E t \in DOMAIN tasks :
        \/ AddSongGet(t)
        \/ AddSongFetch(t)
        \/ AddSongFetchFail(t)
        \/ AddSongWrite(t)
        \/ AddSongParseFail(t)
        \/ AddFolderList(t)
        \/ AddFolderListFail(t)

\* every request to Dexie and to the Drive is answered or fails in the end,
\* and the event loop runs the continuation of a settled promise
SpecLive == Init /\ [][Next]_vars /\ WF_vars(IngestionStep)

\* either page
InitBoth ==
    /\ app \in {"player", "uploader"}
    /\ songs = {}
    /\ driveTs = [id \in FileIds |-> 1]
    /\ tasks = <<>>
    /\ calls = <<>>
    /\ loadingNewSongs = FALSE
    /\ lastUpdated = 0
    /\ userDeleted = {}
    /\ PlayerInit

NextBoth ==
    \/ Next
    \/ \E data \in AppPicks : AppPickerChange(data)
    \/ \E t \in DOMAIN tasks : AppFetch(t)
    \/ \E t \in DOMAIN tasks : AppFetchFail(t)
    \/ \E t \in DOMAIN tasks : AppGet(t)
    \/ \E t \in DOMAIN tasks : AppWrite(t)

SpecBoth == InitBoth /\ [][NextBoth]_vars

\* the row of file a as an earlier session of the uploader left it
UploadedRow ==
    formatSongToStorageApp([id |-> "a", name |-> DriveName("a"), lastEditedUtc |-> 1],
                           DriveBlob("a", 1), DriveMeta("a", 1))

\* the uploader page on its own, opened on a table that holds file a, while
\* files are changed on the Drive
InitApp ==
    /\ app = "uploader"
    /\ songs = {UploadedRow}
    /\ driveTs = [id \in FileIds |-> 1]
    /\ tasks = <<>>
    /\ calls = <<>>
    /\ loadingNewSongs = FALSE
    /\ lastUpdated = 0
    /\ userDeleted = {}
    /\ PlayerInit

NextApp ==
    \/ \E data \in AppPicks : AppPickerChange(data)
    \/ \E t \in DOMAIN tasks : AppFetch(t)
    \/ \E t \in DOMAIN tasks : AppFetchFail(t)
    \/ \E t \in DOMAIN tasks : AppGet(t)
    \/ \E t \in DOMAIN tasks : AppWrite(t)
    \/ \E id \in ChangingIds : DriveModify(id)

SpecApp == InitApp /\ [][NextApp]_vars

----------------------------------------------------------------------------
(* The player page: the live query allSongs and the effect that refreshes    *)
(* songToCover and rebinds audio.onended (lines 104-152)                     *)

ingestion == <<app, songs, driveTs, tasks, calls, loadingNewSongs, lastUpdated, userDeleted>>

\* order of the primary keys, in which toArray() delivers the rows
IdOrder == <<"a", "b", "c">>

\* db.songs.toArray()
ToArray(rows) ==
    LET ids == SelectSeq(IdOrder, LAMBDA i : \E r \in rows : r.id = i)
    IN  [k \in 1..Len(ids) |-> CHOOSE r \in rows : r.id = ids[k]]

\* URL.createObjectURL(blob): a handle that no earlier call returned
CreateObjectURL(urls, blob) == Append(urls, [blob |-> blob, revoked |-> 0])

\* URL.revokeObjectURL(h); the calls per handle are counted, 2 standing for
\* two or more; a string that is no handle ('') is ignored
RevokeObjectURL(urls, h) ==
    IF h \in DOMAIN urls
    THEN [urls EXCEPT ![h].revoked = IF @ < 2 THEN @ + 1 ELSE 2]
    ELSE urls

\* lines 130-143 from the k-th song on; st holds songToCover (which the loop
\* mutates), newSongToCover (the copy made at line 129) and the handles
RECURSIVE CoverForEach(_, _, _)
CoverForEach(all, k, st) ==
    IF k > Len(all) THEN st
    ELSE LET song == all[k]
             stale == \E e \in st.songToCover :
                          e.id = song.id /\ song.lastEditedUtc > e.lastUpdatedUtc
             stc == IF stale THEN {e \in st.songToCover : e.id # song.id}
                    ELSE st.songToCover
             make == (\A e \in stc : e.id # song.id) /\ song.cover # Undefined
             urls == IF make THEN CreateObjectURL(st.urls, song.cover) ELSE st.urls
             new == IF make
                    THEN {e \in st.newSongToCover : e.id # song.id} \cup
                         {[id |-> song.id, cover |-> Len(urls),
                           lastUpdatedUtc |-> song.lastEditedUtc]}
                    ELSE st.newSongToCover
         IN  CoverForEach(all, k + 1,
                          [songToCover |-> stc, newSongToCover |-> new, urls |-> urls])

\* a key loop that drops the entries of vanished songs without revoking
RECURSIVE CoverKeysForEachKeep(_, _, _)
CoverKeysForEachKeep(rows, k, st) ==
    IF k > Len(IdOrder) THEN st
    ELSE LET id == IdOrder[k]
             gone == {e \in st.songToCover : e.id = id /\ \A r \in rows : r.id # id}
         IN  CoverKeysForEachKeep(rows, k + 1,
                 [st EXCEPT !.newSongToCover = {e \in @ : \A g \in gone : e.id # g.id}])

\* lines 144-149 from the k-th key on: songMap has no song for the key
RECURSIVE CoverKeysForEach(_, _, _)
CoverKeysForEach(rows, k, st) ==
    IF k > Len(IdOrder) THEN st
    ELSE LET id == IdOrder[k]
             gone == {e \in st.songToCover : e.id = id /\ \A r \in rows : r.id # id}
             urls == IF gone = {} THEN st.urls
                     ELSE RevokeObjectURL(st.urls, (CHOOSE e \in gone : TRUE).cover)
         IN  CoverKeysForEach(rows, k + 1,
                 [st EXCEPT !.urls = urls,
                            !.newSongToCover = {e \in @ : \A g \in gone : e.id # g.id}])

\* lines 129-150: the value handed to setSongToCover and the handles after it
CoverRefresh(stc, urls, rows) ==
    LET st0 == [songToCover |-> stc, newSongToCover |-> stc, urls |-> urls]
        st1 == CoverForEach(ToArray(rows), 1, st0)
    IN  CoverKeysForEach(rows, 1, st1)

\* the live query delivers the rows of the table (one delivery can cover
\* several writes); the page renders and the effect of line 128 runs
useEffectAllSongs ==
    /\ app = "player"
    /\ ~allSongs.loaded \/ allSongs.rows # songs
    /\ allSongs' = [loaded |-> TRUE, rows |-> songs]
    /\ LET st == CoverRefresh(songToCover, objectURLs, songs)
       IN  /\ songToCover' = st.newSongToCover
           /\ objectURLs' = st.urls
    /\ onended' = currentSong
    /\ notice' = ""
    /\ UNCHANGED <<ingestion, albums, currentAlbum, currentSong, playing, audioSrc,
                   endedQueued, loadedBy, filterIn, filterOut, formatIn, modal>>

\* selections made in the picker while the cover cache is observed
CoverPicks == {<<Doc("a"), Doc("b")>>, <<Doc("b"), Doc("G")>>}

\* the song whose trash icon is used while the cover cache is observed
CoverDeletes == {"b"}

\* the table changes through ingestion and deletions, the cache through the
\* effect; an invocation that fails writes nothing, as one that has not
\* finished yet, and an edit leaves id, lastEditedUtc and cover, all that the
\* effect reads, as they are: those steps are left to Spec
NextCover ==
    \/ \E data \in CoverPicks : handlePickerChange(data)
    \/ \E t \in DOMAIN tasks : AddSongGet(t)
    \/ \E t \in DOMAIN tasks : AddSongFetch(t)
    \/ \E t \in DOMAIN tasks : AddSongWrite(t)
    \/ \E t \in DOMAIN tasks : AddFolderList(t)
    \/ \E id \in CoverDeletes : DeleteSong(id)
    \/ \E id \in ChangingIds : DriveModify(id)
    \/ useEffectAllSongs

SpecCover == Init /\ [][NextCover]_vars

----------------------------------------------------------------------------
(* Songs are edited while they are ingested again and the cover cache is     *)
(* refreshed                                                                 *)

\* selections made in the picker while songs are edited
EditPicks == {<<Doc("a"), Doc("b")>>, <<Doc("a"), Doc("F")>>}

\* the file that is changed on the Drive while songs are edited
EditChangingIds == {"a"}

\* the page opened on a table that an earlier session filled
InitEdit ==
    /\ app = "player"
    /\ songs = {formatSongToStorage([id |-> id, name |-> DriveName(id), lastEditedUtc |-> 1],
                                     DriveBlob(id, 1), DriveMeta(id, 1)) : id \in {"a", "b"}}
    /\ driveTs = [id \in FileIds |-> 1]
    /\ tasks = <<>>
    /\ calls = <<>>
    /\ loadingNewSongs = FALSE
    /\ lastUpdated = 0
    /\ userDeleted = {}
    /\ PlayerInit

NextEdit ==
    \/ \E data \in EditPicks : handlePickerChange(data)
    \/ \E t \in DOMAIN tasks : AddSongGet(t)
    \/ \E t \in DOMAIN tasks : AddSongFetch(t)
    \/ \E t \in DOMAIN tasks : AddSongWrite(t)
    \/ \E t \in DOMAIN tasks : AddFolderList(t)
    \/ \E id \in FileIds, title \in EditTitles : EditSong(id, title)
    \/ \E id \in EditChangingIds : DriveModify(id)
    \/ useEffectAllSongs

SpecEdit == InitEdit /\ [][NextEdit]_vars

----------------------------------------------------------------------------
(* filterSongs (lines 311-342) *)

\* enum Comparison
Comparison == {"is", "is not", "includes", "does not include"}

\* rule.attribute.toLowerCase(): the field of the song that enum Attribute names
ToLowerCase(attribute) ==
    CASE attribute = "Title"  -> "title"
      [] attribute = "Artist" -> "artist"
      [] attribute = "Album"  -> "album"
      [] attribute = "Genre"  -> "genre"

\* String.prototype.includes
Includes(str, sub) ==
    \E i \in 0..(Len(str) - Len(sub)) : SubSeq(str, i + 1, i + Len(sub)) = sub

\* a loop that only looks at the first rule
RECURSIVE FilterLoopFirstRule(_, _, _)
FilterLoopFirstRule(album, song, i) ==
    IF i > Len(album.rules) \/ i > 1 THEN album.followAllRules
    ELSE LET rule == album.rules[i]
             attribute == song[ToLowerCase(rule.attribute)]
         IN  IF Falsy(attribute) THEN FALSE
             ELSE IF rule.comparison = "is" THEN attribute = rule.data
             ELSE IF rule.comparison = "is not" THEN attribute # rule.data
             ELSE IF rule.comparison = "includes" THEN Includes(attribute, rule.data)
             ELSE ~Includes(attribute, rule.data)

\* a loop that answers false once the rules are used up
RECURSIVE FilterLoopEndsFalse(_, _, _)
FilterLoopEndsFalse(album, song, i) ==
    IF i > Len(album.rules) THEN FALSE
    ELSE LET rule == album.rules[i]
             attribute == song[ToLowerCase(rule.attribute)]
         IN  IF Falsy(attribute) THEN FALSE
             ELSE IF album.followAllRules /\ rule.comparison = "is" /\ attribute # rule.data
             THEN FALSE
             ELSE FilterLoopEndsFalse(album, song, i + 1)

\* a loop that in AND mode answers true at the first rule that holds
RECURSIVE FilterLoopAndFirstHolds(_, _, _)
FilterLoopAndFirstHolds(album, song, i) ==
    IF i > Len(album.rules) THEN album.followAllRules
    ELSE LET rule == album.rules[i]
             attribute == song[ToLowerCase(rule.attribute)]
             holds == \/ rule.comparison = "is" /\ attribute = rule.data
                      \/ rule.comparison = "is not" /\ attribute # rule.data
                      \/ rule.comparison = "includes" /\ Includes(attribute, rule.data)
                      \/ rule.comparison = "does not include"
                            /\ ~Includes(attribute, rule.data)
         IN  IF Falsy(attribute) THEN FALSE
             ELSE IF holds THEN TRUE
             ELSE IF album.followAllRules THEN FALSE
             ELSE FilterLoopAndFirstHolds(album, song, i + 1)

\* the callback of allSongs?.filter from rule i on (lines 313-341)
RECURSIVE FilterLoop(_, _, _)
FilterLoop(album, song, i) ==
    IF i > Len(album.rules) THEN album.followAllRules
    ELSE LET rule == album.rules[i]
             attribute == song[ToLowerCase(rule.attribute)]
         IN  IF Falsy(attribute) THEN FALSE
             ELSE IF /\ ~album.followAllRules
                     /\ \/ rule.comparison = "is" /\ attribute = rule.data
                        \/ rule.comparison = "is not" /\ attribute # rule.data
                        \/ rule.comparison = "includes" /\ Includes(attribute, rule.data)
                        \/ rule.comparison = "does not include"
                              /\ ~Includes(attribute, rule.data)
             THEN TRUE
             ELSE IF /\ album.followAllRules
                     /\ \/ rule.comparison = "is" /\ attribute # rule.data
                        \/ rule.comparison = "is not" /\ attribute = rule.data
                        \/ rule.comparison = "includes" /\ ~Includes(attribute, rule.data)
                        \/ rule.comparison = "does not include"
                              /\ Includes(attribute, rule.data)
             THEN FALSE
             ELSE FilterLoop(album, song, i + 1)

\* filterSongs(album) over the delivered rows
filterSongs(album, rows) == {song \in rows : FilterLoop(album, song, 1)}

\* the rules, albums and songs handed to filterSongs on its own
FilterData == {<<>>, <<"x">>, <<"x", "y">>}
FilterAttributes == {"Title", "Artist"}
FilterRules == [attribute : FilterAttributes, comparison : Comparison, data : FilterData]
FilterAlbums ==
    [name : {<<"A">>}, followAllRules : BOOLEAN,
     rules : UNION {[1..n -> FilterRules] : n \in 0..MaxRules}]
FilterSongs ==
    [id : {"a"}, title : {<<"x">>, <<"x", "y">>},
     artist : {Undefined, <<>>, <<"x">>, <<"y">>},
     album : {Undefined}, genre : {Undefined}]

InitFilter ==
    /\ app = "player"
    /\ songs = {}
    /\ driveTs = [id \in FileIds |-> 1]
    /\ tasks = <<>>
    /\ calls = <<>>
    /\ loadingNewSongs = FALSE
    /\ lastUpdated = 0
    /\ userDeleted = {}
    /\ allSongs = [loaded |-> FALSE, rows |-> {}]
    /\ songToCover = {}
    /\ objectURLs = <<>>
    /\ albums = <<>>
    /\ currentAlbum = <<>>
    /\ currentSong = {}
    /\ playing = FALSE
    /\ audioSrc = 0
    /\ onended = {}
    /\ endedQueued = FALSE
    /\ loadedBy = "none"
    /\ notice = ""
    /\ filterIn \in [album : FilterAlbums, song : FilterSongs]
    /\ filterOut = [done |-> FALSE, included |-> FALSE]
    /\ formatIn = Null
    /\ modal = [m \in Modals |-> ModalClosed]

\* filterSongs is run on the album for a table that holds the one song
FilterApply ==
    /\ ~filterOut.done
    /\ filterOut' = [done |-> TRUE,
                     included |-> filterIn.song \in filterSongs(filterIn.album, {filterIn.song})]
    /\ UNCHANGED <<ingestion, allSongs, songToCover, objectURLs, albums, currentAlbum,
                   currentSong, playing, audioSrc, onended, endedQueued, loadedBy,
                   notice, filterIn, formatIn, modal>>

NextFilter == FilterApply

SpecFilter == InitFilter /\ [][NextFilter]_vars

----------------------------------------------------------------------------
(* playSong and the audio element (lines 57, 344-369, 387-390, 520-537,      *)
(* 631-635, 729-733)                                                         *)

NoSongs == "There are currently no songs to play"

\* the scope used when no album has the name of currentAlbum (lines 347-351)
DefaultAlbum == [name |-> <<>>, followAllRules |-> TRUE, rules |-> <<>>]

\* a lookup that falls back to the first album of the list
FindAlbumOrFirst(list, name) ==
    IF \E i \in DOMAIN list : list[i].name = name
    THEN list[CHOOSE i \in DOMAIN list :
                 list[i].name = name /\ \A j \in 1..(i - 1) : list[j].name # name]
    ELSE IF list # <<>> THEN list[1]
    ELSE [name |-> <<>>, followAllRules |-> TRUE, rules |-> <<>>]

\* albums.value.find((album) => album.name === name) || default
FindAlbum(list, name) ==
    IF \E i \in DOMAIN list : list[i].name = name
    THEN list[CHOOSE i \in DOMAIN list :
                 list[i].name = name /\ \A j \in 1..(i - 1) : list[j].name # name]
    ELSE DefaultAlbum

\* filterSongs(...) at line 346 for the album name: undefined (no songs)
\* before the first delivery of allSongs
FilteredSongs(name) ==
    IF allSongs.loaded THEN filterSongs(FindAlbum(albums, name), allSongs.rows) ELSE {}

\* the object URLs made for the audio element so far
AudioHandles(urls) == {h \in DOMAIN urls : urls[h].blob[1] = "blob"}

\* the songs the random draw of lines 358-363 can end with, for the
\* currentSong cs of the closure that runs
Draw(filteredSongs, cs) ==
    {newSong \in filteredSongs :
        ~((\E c \in cs : newSong.id = c.id) /\ Cardinality(filteredSongs) > 1)}

\* playSong(song) run by a closure whose currentSong is cs, with the album
\* name that currentAlbum.value gives; audio.play() fires onplay
playSong(song, cs, name, by) ==
    LET revoked == RevokeObjectURL(objectURLs, audioSrc)
        filteredSongs == FilteredSongs(name)
    IN  IF filteredSongs = {}
        THEN /\ objectURLs' = revoked
             /\ notice' = NoSongs
             /\ UNCHANGED <<currentSong, audioSrc, playing, loadedBy>>
        ELSE /\ Cardinality(AudioHandles(objectURLs)) < MaxPlays
             /\ \E newSong \in (IF song # {} THEN song ELSE Draw(filteredSongs, cs)) :
                   /\ currentSong' = {newSong}
                   /\ objectURLs' = CreateObjectURL(revoked, newSong.blob)
                   /\ audioSrc' = Len(revoked) + 1
             /\ playing' = TRUE
             /\ loadedBy' = by
             /\ notice' = ""

\* the next control (line 537): playSong() of the current render
PlayNext ==
    /\ playSong({}, currentSong, currentAlbum, "next")
    /\ UNCHANGED <<ingestion, allSongs, songToCover, albums, currentAlbum, onended,
                   endedQueued, filterIn, filterOut, formatIn, modal>>

\* a click on a song row (lines 631-635)
PlayRow(song) ==
    /\ currentAlbum' = <<>>
    /\ playSong({song}, currentSong, <<>>, "row")
    /\ UNCHANGED <<ingestion, allSongs, songToCover, albums, onended, endedQueued,
                   filterIn, filterOut, formatIn, modal>>

\* a click on an album row (lines 729-733)
PlayAlbum(i) ==
    /\ currentAlbum' = albums[i].name
    /\ playSong({}, currentSong, albums[i].name, "next")
    /\ UNCHANGED <<ingestion, allSongs, songToCover, albums, onended, endedQueued,
                   filterIn, filterOut, formatIn, modal>>

\* the pause icon, shown while playing: audio.pause() fires onpause
Pause ==
    /\ playing
    /\ playing' = FALSE
    /\ notice' = ""
    /\ UNCHANGED <<ingestion, allSongs, songToCover, objectURLs, albums, currentAlbum,
                   currentSong, audioSrc, onended, endedQueued, loadedBy, filterIn,
                   filterOut, formatIn, modal>>

\* a play icon whose handler does not look at currentSong
ResumeAlways ==
    /\ ~playing
    /\ playing' = TRUE
    /\ notice' = ""
    /\ UNCHANGED <<ingestion, allSongs, songToCover, objectURLs, albums, currentAlbum,
                   currentSong, audioSrc, onended, endedQueued, loadedBy, filterIn,
                   filterOut, formatIn, modal>>

\* the play icon, shown while not playing, has a handler only while a song
\* is loaded: audio.play() fires onplay
Resume ==
    /\ ~playing
    /\ currentSong # {}
    /\ playing' = TRUE
    /\ notice' = ""
    /\ UNCHANGED <<ingestion, allSongs, songToCover, objectURLs, albums, currentAlbum,
                   currentSong, audioSrc, onended, endedQueued, loadedBy, filterIn,
                   filterOut, formatIn, modal>>

\* the track reaches its end: the element pauses (onpause) and queues ended
AudioEnds ==
    /\ playing /\ audioSrc # 0 /\ ~endedQueued
    /\ playing' = FALSE
    /\ endedQueued' = TRUE
    /\ notice' = ""
    /\ UNCHANGED <<ingestion, allSongs, songToCover, objectURLs, albums, currentAlbum,
                   currentSong, audioSrc, onended, loadedBy, filterIn, filterOut,
                   formatIn, modal>>

\* audio.onended runs: playSong() of the render in which the effect of line
\* 128 last ran (line 151)
AudioOnEnded ==
    /\ endedQueued
    /\ endedQueued' = FALSE
    /\ playSong({}, onended, currentAlbum, "next")
    /\ UNCHANGED <<ingestion, allSongs, songToCover, albums, currentAlbum, onended,
                   filterIn, filterOut, formatIn, modal>>

\* a row as an earlier session left it in the table
PersistedRow(id) ==
    formatSongToStorage([id |-> id, name |-> DriveName(id), lastEditedUtc |-> 1],
                        DriveBlob(id, 1), DriveMeta(id, 1))

\* the albums an earlier session left in the persisted albums list
AlbumS ==
    [name |-> <<"A">>, followAllRules |-> TRUE,
     rules |-> <<[attribute |-> "Title", comparison |-> "is", data |-> <<"S">>]>>]
AlbumB ==
    [name |-> <<"B">>, followAllRules |-> FALSE,
     rules |-> <<[attribute |-> "Title", comparison |-> "includes", data |-> <<"b">>]>>]

InitPlay ==
    /\ app = "player"
    /\ songs \in SUBSET {PersistedRow(id) : id \in FileIds}
    /\ driveTs = [id \in FileIds |-> 1]
    /\ tasks = <<>>
    /\ calls = <<>>
    /\ loadingNewSongs = FALSE
    /\ lastUpdated = 0
    /\ userDeleted = {}
    /\ allSongs = [loaded |-> FALSE, rows |-> {}]
    /\ songToCover = {}
    /\ objectURLs = <<>>
    /\ albums \in {<<>>, <<AlbumS, AlbumB>>}
    /\ currentAlbum = <<>>
    /\ currentSong = {}
    /\ playing = FALSE
    /\ audioSrc = 0
    /\ onended = {}
    /\ endedQueued = FALSE
    /\ loadedBy = "none"
    /\ notice = ""
    /\ filterIn = Null
    /\ filterOut = [done |-> FALSE, included |-> FALSE]
    /\ formatIn = Null
    /\ modal = [m \in Modals |-> ModalClosed]

NextPlay ==
    \/ useEffectAllSongs
    \/ PlayNext
    \/ \E song \in allSongs.rows : PlayRow(song)
    \/ \E i \in DOMAIN albums : PlayAlbum(i)
    \/ Pause
    \/ Resume
    \/ AudioEnds
    \/ AudioOnEnded
    \/ \E id \in FileIds : DeleteSong(id)

SpecPlay == InitPlay /\ [][NextPlay]_vars

----------------------------------------------------------------------------
(* The albums list: create, edit and delete (lines 59-63, 85-95, 737-753,    *)
(* 773-785, 856-871)                                                         *)

\* albums the list holds at most during a session
MaxAlbums == 2

AlbumExists == "Album already exists"
AlbumCreated == "Album created!"
AlbumUpdated == "Album updated!"

\* const emptyRule
emptyRule == [attribute |-> "Album", comparison |-> "is", data |-> <<>>]

\* the names typed into the Name input; <<>> is the input left empty
AlbumNames == {<<>>, <<"A">>, <<"B">>}

\* what the forms hold at submit: the name with the form as it opens for a
\* new album (followAllRules false, rules [emptyRule]) or with the checkbox
\* ticked and the rule removed
AlbumForms ==
    {[name |-> n, followAllRules |-> FALSE, rules |-> <<emptyRule>>] : n \in AlbumNames}
    \cup {[name |-> n, followAllRules |-> TRUE, rules |-> <<>>] : n \in AlbumNames}

\* albums.value.findIndex((album) => album.name === name), 0 for -1
FindIndex(list, name) ==
    IF \E i \in DOMAIN list : list[i].name = name
    THEN CHOOSE i \in DOMAIN list :
             list[i].name = name /\ \A j \in 1..(i - 1) : list[j].name # name
    ELSE 0

\* albums.merge({ [idx]: none }): the element is spliced out
MergeNone(list, idx) ==
    [k \in 1..(Len(list) - 1) |-> IF k < idx THEN list[k] ELSE list[k + 1]]

\* a create form that is submitted without the lookup of the name
CreateAlbumNoLookup(form) ==
    /\ Len(albums) < MaxAlbums
    /\ albums' = Append(albums, form)
    /\ notice' = AlbumCreated
    /\ UNCHANGED <<ingestion, allSongs, songToCover, objectURLs, currentAlbum,
                   currentSong, playing, audioSrc, onended, endedQueued, loadedBy,
                   filterIn, filterOut, formatIn, modal>>

\* submit of the modal 'Create a New Album' (lines 774-785)
CreateAlbum(form) ==
    /\ IF FindIndex(albums, form.name) # 0
       THEN /\ notice' = AlbumExists
            /\ albums' = albums
       ELSE /\ Len(albums) < MaxAlbums
            /\ albums' = Append(albums, form)
            /\ notice' = AlbumCreated
    /\ UNCHANGED <<ingestion, allSongs, songToCover, objectURLs, currentAlbum,
                   currentSong, playing, audioSrc, onended, endedQueued, loadedBy,
                   filterIn, filterOut, formatIn, modal>>

\* an edit form that refuses every name the list holds, its own included
EditAlbumRefuseOwn(idx, form) ==
    /\ IF FindIndex(albums, form.name) # 0
       THEN /\ notice' = AlbumExists
            /\ albums' = albums
       ELSE /\ albums' = [albums EXCEPT ![idx] = form]
            /\ notice' = AlbumUpdated
    /\ UNCHANGED <<ingestion, allSongs, songToCover, objectURLs, currentAlbum,
                   currentSong, playing, audioSrc, onended, endedQueued, loadedBy,
                   filterIn, filterOut, formatIn, modal>>

\* the pencil icon of album row idx (lines 745-750) and, the modal being
\* the only thing that can be clicked while it is shown, the submit of
\* 'Edit an Album' with the values typed (lines 857-871); the idx the form
\* carries is stored with the album and read by nothing
EditAlbum(idx, form) ==
    /\ LET foundIdx == FindIndex(albums, form.name)
       IN  IF foundIdx # 0 /\ foundIdx # idx
           THEN /\ notice' = AlbumExists
                /\ albums' = albums
           ELSE /\ albums' = [albums EXCEPT ![idx] = form]
                /\ notice' = AlbumUpdated
    /\ UNCHANGED <<ingestion, allSongs, songToCover, objectURLs, currentAlbum,
                   currentSong, playing, audioSrc, onended, endedQueued, loadedBy,
                   filterIn, filterOut, formatIn, modal>>

\* the trash icon of album row idx (lines 737-740)
DeleteAlbum(idx) ==
    /\ albums' = MergeNone(albums, idx)
    /\ notice' = ""
    /\ UNCHANGED <<ingestion, allSongs, songToCover, objectURLs, currentAlbum,
                   currentSong, playing, audioSrc, onended, endedQueued, loadedBy,
                   filterIn, filterOut, formatIn, modal>>

\* the page opened on a table of two songs and no album
InitAlbum ==
    /\ app = "player"
    /\ songs = {PersistedRow("a"), PersistedRow("b")}
    /\ driveTs = [id \in FileIds |-> 1]
    /\ tasks = <<>>
    /\ calls = <<>>
    /\ loadingNewSongs = FALSE
    /\ lastUpdated = 0
    /\ userDeleted = {}
    /\ PlayerInit

NextAlbum ==
    \/ useEffectAllSongs
    \/ \E form \in AlbumForms : CreateAlbum(form)
    \/ \E idx \in DOMAIN albums, form \in AlbumForms : EditAlbum(idx, form)
    \/ \E idx \in DOMAIN albums : DeleteAlbum(idx)

SpecAlbum == InitAlbum /\ [][NextAlbum]_vars

\* the albums list is managed and songs are selected
NextAlbumPlay ==
    \/ NextAlbum
    \/ PlayNext
    \/ \E song \in allSongs.rows : PlayRow(song)
    \/ \E i \in DOMAIN albums : PlayAlbum(i)

SpecAlbumPlay == InitAlbum /\ [][NextAlbumPlay]_vars

----------------------------------------------------------------------------
(* The active album is deleted or renamed while songs are selected           *)

\* the name an album is renamed to
ScopeNames == {<<"C">>}

\* the page opened on a table of two songs and the two persisted albums
InitScope ==
    /\ InitPlay
    /\ songs = {PersistedRow("a"), PersistedRow("b")}
    /\ albums = <<AlbumS, AlbumB>>

NextScope ==
    \/ useEffectAllSongs
    \/ PlayNext
    \/ \E i \in DOMAIN albums : PlayAlbum(i)
    \/ \E idx \in DOMAIN albums : DeleteAlbum(idx)
    \/ \E idx \in DOMAIN albums, n \in ScopeNames :
          EditAlbum(idx, [albums[idx] EXCEPT !.name = n])
    \/ AudioEnds
    \/ AudioOnEnded

SpecScope == InitScope /\ [][NextScope]_vars

----------------------------------------------------------------------------
(* Modal (part_002 lines 26-163): the prop show, the state modalDeleted and  *)
(* pseudoShow, the body scroll lock of its element, the effect of lines      *)
(* 46-57 and the opacity transition of its element                           *)

\* everything but the Modals
page == <<ingestion, allSongs, songToCover, objectURLs, albums, currentAlbum, currentSong,
          playing, audioSrc, onended, endedQueued, loadedBy, notice, filterIn, filterOut,
          formatIn>>

\* the dependencies of the effect: [show, modalDeleted, pseudoShow]
ModalDeps(s) == <<s.show, s.modalDeleted, s.pseudoShow>>

\* the opacity the class of line 78-80 asks for
ModalOpacity(s) == IF s.pseudoShow THEN 100 ELSE 0

\* the body of the effect (lines 46-57) in the render s: the state it sets and
\* the lock it takes or releases
ModalEffectBody(s) ==
    IF s.show /\ s.modalDeleted /\ ~s.pseudoShow
    THEN [s EXCEPT !.modalDeleted = FALSE]
    ELSE IF s.show /\ ~s.modalDeleted /\ ~s.pseudoShow
    THEN [s EXCEPT !.pseudoShow = TRUE, !.locked = TRUE]
    ELSE IF ~s.show /\ ~s.modalDeleted /\ s.pseudoShow
    THEN [s EXCEPT !.pseudoShow = FALSE, !.locked = FALSE]
    ELSE s

\* React runs the effect of a committed render before it renders again
ModalFlush(s) == IF s.effect THEN ModalEffectBody(s) ELSE s

\* the render that follows render s with the state n: the effect is due when a
\* dependency has changed; the element (line 76) is created with the opacity
\* of its class or removed, and a removed element has no transition
ModalCommit(s, n) ==
    [n EXCEPT !.effect = ModalDeps(n) # ModalDeps(s),
              !.opacity = IF n.modalDeleted THEN 0
                          ELSE IF s.modalDeleted THEN ModalOpacity(n)
                          ELSE s.opacity,
              !.transition = ~n.modalDeleted /\ ~s.modalDeleted /\ s.transition]

\* the parent sets show: a pencil or plus icon opens the Modal when no other
\* one is open; Escape (59-64), the backdrop (89-92), Cancel (148-151) or the
\* parent's submit handler close it
ModalSetShow(m, v) ==
    /\ app = "player"
    /\ modal[m].show # v
    /\ v => \A o \in Modals : ~modal[o].show
    /\ modal' = [modal EXCEPT ![m] = ModalCommit(@, [ModalFlush(@) EXCEPT !.show = v])]
    /\ UNCHANGED page

\* the effect of the last render runs (lines 46-57)
ModalEffect(m) ==
    /\ modal[m].effect
    /\ modal' = [modal EXCEPT ![m] = ModalCommit(@, ModalEffectBody(@))]
    /\ UNCHANGED page

\* the browser recalculates the style of the element: its opacity differs from
\* the one its class asks for, the transition starts
ModalStyle(m) ==
    /\ ~modal[m].modalDeleted /\ ~modal[m].transition
    /\ modal[m].opacity # ModalOpacity(modal[m])
    /\ modal' = [modal EXCEPT ![m].transition = TRUE]
    /\ UNCHANGED page

\* the transition of the element ends at the opacity of its class:
\* onTransitionEnd={() => !show && setModalDeleted(true)} (line 84)
ModalTransitionEnd(m) ==
    /\ ~modal[m].modalDeleted /\ modal[m].transition
    /\ LET s == [modal[m] EXCEPT !.transition = FALSE, !.opacity = ModalOpacity(modal[m])]
       IN  modal' = [modal EXCEPT ![m] =
                        IF ~s.show
                        THEN ModalCommit(s, [ModalFlush(s) EXCEPT !.modalDeleted = TRUE])
                        ELSE s]
    /\ UNCHANGED page

NextModal ==
    \/ \E m \in Modals, v \in BOOLEAN : ModalSetShow(m, v)
    \/ \E m \in Modals : ModalEffect(m)
    \/ \E m \in Modals : ModalStyle(m)
    \/ \E m \in Modals : ModalTransitionEnd(m)

\* React runs every pending effect, the browser recalculates styles and
\* every transition that runs ends; nothing makes the parent set show
SpecModal ==
    /\ Init /\ [][NextModal]_vars
    /\ \A m \in Modals : /\ WF_vars(ModalEffect(m))
                           /\ WF_vars(ModalStyle(m))
                           /\ WF_vars(ModalTransitionEnd(m))

----------------------------------------------------------------------------
(* formatSongToStorage on its own (part_001 lines 174-196, App.tsx lines     *)
(* 47-69), followed by the edit form of the song                             *)

\* the names of the file handed to formatSongToStorage
FormatNames ==
    {<<"t", ".", "m">>, <<"a", ".", "b", ".", "m">>, <<".", "m">>, <<"t">>,
     <<"t", ".">>}

\* the title id3-parser finds in it
FormatTitles == {Undefined, <<>>, <<NUL>>, <<"S">>, <<"S", NUL>>}

\* the titles typed into the edit form of the song
FormatEditTitles == {<<>>, <<"E">>}

\* the document and the tags of the file
FormatSong == [id |-> "a", name |-> formatIn.name, lastEditedUtc |-> 1]
FormatMeta == [DriveMeta("a", 1) EXCEPT !.title = formatIn.title]

InitFormat ==
    /\ app \in {"player", "uploader"}
    /\ songs = {}
    /\ driveTs = [id \in FileIds |-> 1]
    /\ tasks = <<>>
    /\ calls = <<>>
    /\ loadingNewSongs = FALSE
    /\ lastUpdated = 0
    /\ userDeleted = {}
    /\ allSongs = [loaded |-> FALSE, rows |-> {}]
    /\ songToCover = {}
    /\ objectURLs = <<>>
    /\ albums = <<>>
    /\ currentAlbum = <<>>
    /\ currentSong = {}
    /\ playing = FALSE
    /\ audioSrc = 0
    /\ onended = {}
    /\ endedQueued = FALSE
    /\ loadedBy = "none"
    /\ notice = ""
    /\ filterIn = Null
    /\ filterOut = [done |-> FALSE, included |-> FALSE]
    /\ formatIn \in [name : FormatNames, title : FormatTitles]
    /\ modal = [m \in Modals |-> ModalClosed]

\* db.songs.add(formatSongToStorage({ ...song, blob, metaData })) of the player
FormatAdd ==
    /\ app = "player"
    /\ songs = {}
    /\ songs' = DbAdd(songs, formatSongToStorage(FormatSong, DriveBlob("a", 1), FormatMeta))
    /\ UNCHANGED <<player, app, driveTs, tasks, calls, loadingNewSongs, lastUpdated,
                   userDeleted>>

\* db.songs.add(formatSongToStorage({ ...song, blob, metaData })) of the uploader
FormatAddApp ==
    /\ app = "uploader"
    /\ songs = {}
    /\ songs' = DbAdd(songs, formatSongToStorageApp(FormatSong, DriveBlob("a", 1), FormatMeta))
    /\ UNCHANGED <<player, app, driveTs, tasks, calls, loadingNewSongs, lastUpdated,
                   userDeleted>>

NextFormat ==
    \/ FormatAdd
    \/ FormatAddApp
    \/ \E id \in FileIds, title \in FormatEditTitles : EditSong(id, title)

SpecFormat == InitFormat /\ [][NextFormat]_vars

----------------------------------------------------------------------------
(* Properties of the ingestion pipeline *)

SongTasks == {t \in DOMAIN tasks : tasks[t].kind = "song"}
FolderTasks == {t \in DOMAIN tasks : tasks[t].kind = "folder"}

InFlight(t) == tasks[t].pc \in {"get", "fetch", "parse", "list"}

\* the invocations started, directly or not, by folder invocation f
RECURSIVE Subtree(_)
Subtree(f) == {f} \cup UNION {Subtree(u) : u \in Children(tasks, f)}

\* the audio files below a folder of the Drive, at any depth
RECURSIVE FilesBelow(_)
FilesBelow(folder) ==
    LET files == DriveChildren(folder)
    IN  UNION {IF files[i] \in FolderIds THEN FilesBelow(files[i]) ELSE {files[i]}
               : i \in 1..Len(files)}

\* C1: the table never holds two different rows with the same id, whatever
\* ingestions, edits and deletions have run and however they interleave
C1_OneRecordPerId ==
    \A r1 \in songs, r2 \in songs : r1.id = r2.id => r1 = r2

\* two ingestions of one id that both found no row: one has added its
\* record, the other is about to add a different one
C1_Witness ==
    \E t \in SongTasks, u \in SongTasks :
        /\ t # u /\ tasks[t].id = tasks[u].id
        /\ tasks[t].lastEditedUtc # tasks[u].lastEditedUtc
        /\ tasks[t].pc = "written"
        /\ tasks[u].pc = "parse" /\ tasks[u].duplicate = 0
        /\ DbGet(songs, tasks[u].id) # {}
        /\ Stored(tasks[u]) \notin songs

\* C2: when two ingestions of one id with different lastEditedUtc have both
\* written, the row stored for the id carries the greater lastEditedUtc
\* (rows the user deleted meanwhile set aside)
C2_GreaterTimestampWins ==
    \A t \in SongTasks, u \in SongTasks :
        ( /\ t # u /\ tasks[t].id = tasks[u].id
          /\ tasks[t].lastEditedUtc > tasks[u].lastEditedUtc
          /\ tasks[t].pc = "written" /\ tasks[u].pc = "written"
          /\ tasks[t].id \notin userDeleted )
        => \E r \in songs : r.id = tasks[t].id
                            /\ r.lastEditedUtc >= tasks[t].lastEditedUtc

\* C3: a call that has emitted its success notice, cleared the loading flag
\* and set the last-synced value has no invocation of handleAddFolder or
\* handleAddSong still running
C3_CompletesAfterAllWork ==
    \A c \in DOMAIN calls :
        calls[c].state = "fulfilled" =>
            \A t \in DOMAIN tasks : tasks[t].call = c => ~InFlight(t)

FileTasks == {t \in DOMAIN tasks : tasks[t].kind \in {"song", "upload"}}

\* the step in which file invocation t gets the answer of db.songs.get while
\* the table holds a row for its id that is at least as recent
SkipCase(t) ==
    /\ tasks[t].pc = "get" /\ tasks'[t].pc # "get"
    /\ \E r \in songs : r.id = tasks[t].id
                        /\ r.lastEditedUtc >= tasks[t].lastEditedUtc

C5_LastWriterWins ==
    [][\A t \in SongTasks :
          /\ ( /\ tasks[t].pc = "parse" /\ tasks'[t].pc = "written"
               /\ tasks[t].duplicate # 0
               /\ DbGet(songs, tasks[t].id) # {} )
             => ( /\ DbGet(songs', tasks[t].id) = {Stored(tasks[t])}
                  /\ \A r \in songs' : r.id # tasks[t].id => r \in songs )
          /\ ( /\ tasks[t].pc = "get" /\ tasks'[t].pc # "get"
               /\ \E r \in songs : r.id = tasks[t].id
                                   /\ r.lastEditedUtc > tasks[t].lastEditedUtc )
             => (songs' = songs /\ tasks'[t].pc = "skipped")]_vars

\* an edited row is about to be replaced by a record that lacks its artist
C5_Witness ==
    \E t \in SongTasks :
        /\ tasks[t].pc = "parse" /\ tasks[t].duplicate # 0
        /\ Stored(tasks[t]).artist = Undefined
        /\ \E r \in songs : /\ r.id = tasks[t].id
                            /\ r.title = <<"E">>
                            /\ r.artist # Undefined
                            /\ r.lastEditedUtc < tasks[t].lastEditedUtc

\* C6: an invocation of handleAddSong started by a later call than another
\* invocation for the same id and lastEditedUtc leaves the table as it is
\* when it writes
C6_ReingestIsNoOp ==
    [][\A t \in SongTasks :
          ( /\ tasks[t].pc = "parse" /\ tasks'[t].pc = "written"
            /\ \E u \in SongTasks :
                  /\ tasks[u].call < tasks[t].call
                  /\ tasks[u].id = tasks[t].id
                  /\ tasks[u].lastEditedUtc = tasks[t].lastEditedUtc )
          => songs' = songs]_vars

\* the audio files that the first pages of the listings below a folder
\* return, at any depth
RECURSIVE FilesListedBelow(_)
FilesListedBelow(folder) ==
    LET files == DriveFilesList(folder)
    IN  UNION {IF files[i] \in FolderIds THEN FilesListedBelow(files[i]) ELSE {files[i]}
               : i \in 1..Len(files)}

\* C7 as stated: once a picked folder and everything it started has settled
\* without a failure, the table holds exactly one row for every audio file
\* below the folder at any depth (rows the user deleted set aside)
C7_EveryFileBelow ==
    \A f \in FolderTasks :
        Status(tasks, f) = "fulfilled" =>
            \A id \in FilesBelow(tasks[f].id) :
                \/ Cardinality(DbGet(songs, id)) = 1
                \/ id \in userDeleted

\* C7: once a picked folder and everything it started has settled without a
\* failure, the table holds exactly one row for every audio file that the
\* first page of the listing of the folder, or of a folder below it at any
\* depth, returns (rows the user deleted set aside); the traversal starts
\* at most one invocation per listed node of the tree, and while it has not
\* settled one of its invocations can take a step
C7_FolderFlattening ==
    \A f \in FolderTasks :
        /\ Cardinality(Subtree(f)) <= Cost(tasks[f].id)
        /\ Status(tasks, f) = "pending" => \E t \in Subtree(f) : InFlight(t)
        /\ Status(tasks, f) = "fulfilled" =>
              \A id \in FilesListedBelow(tasks[f].id) :
                  \/ Cardinality(DbGet(songs, id)) = 1
                  \/ id \in userDeleted

\* the picked folder F has settled and the table holds a and b
C7_Witness ==
    \E f \in FolderTasks :
        /\ tasks[f].parent = 0 /\ tasks[f].id = "F"
        /\ Status(tasks, f) = "fulfilled"
        /\ Cardinality(Subtree(f)) = 4
        /\ \A t \in Subtree(f) : tasks[t].kind = "song" => tasks[t].pc = "written"
        /\ {r.id : r \in songs} = {"a", "b"}
        /\ Cardinality(songs) = 2

\* C8: a call that is waiting has emitted no notice and still awaits a
\* running invocation; a call that has ended has emitted exactly one notice,
\* the success notice or the failure notice
C8_ExactlyOneNotice ==
    \A c \in DOMAIN calls :
        /\ calls[c].state = "pending" =>
              /\ calls[c].notify = 0 /\ calls[c].error = 0
              /\ \E t \in Picked(tasks, c) : InFlight(t)
        /\ calls[c].state = "fulfilled" => calls[c].notify = 1 /\ calls[c].error = 0
        /\ calls[c].state = "rejected" => calls[c].notify = 0 /\ calls[c].error = 1

\* a call has reported a failure, and after it a second of its documents
\* failed and a third invocation of the call wrote its record
C8_Witness ==
    \E c \in DOMAIN calls :
        /\ calls[c].state = "rejected"
        /\ Cardinality({t \in DOMAIN tasks : tasks[t].call = c /\ tasks[t].pc = "rejected"}) >= 2
        /\ \E t \in DOMAIN tasks : tasks[t].call = c /\ tasks[t].pc = "written"

\* C9: when the listing of a folder has failed, the call that picked or
\* reached the folder has emitted the failure notice and not the success
\* notice
C9_ListingFailureFailsCall ==
    \A t \in FolderTasks :
        tasks[t].pc = "rejected" =>
            /\ calls[tasks[t].call].error = 1
            /\ calls[tasks[t].call].notify = 0

\* C10: when a document of a call has failed, every other song of the call
\* that is still running can take its next step, and every one that has
\* fetched, parsed and written has its row in the table (rows the user
\* deleted set aside)
C10_SiblingsStillWritten ==
    \A t \in SongTasks, u \in SongTasks :
        (tasks[t].call = tasks[u].call /\ tasks[t].pc = "rejected") =>
            /\ tasks[u].pc = "written" =>
                  \/ DbGet(songs, tasks[u].id) # {}
                  \/ tasks[u].id \in userDeleted
            /\ tasks[u].pc = "parse" =>
                  \/ DbGet(WriteSong(songs, tasks[u]), tasks[u].id) # {}
                  \/ tasks[u].id \in userDeleted

\* of the picked list a, b the first has failed and the second is stored
C10_Witness ==
    \E t \in SongTasks, u \in SongTasks :
        /\ tasks[t].call = tasks[u].call
        /\ tasks[t].parent = 0 /\ tasks[u].parent = 0
        /\ tasks[t].pc = "rejected" /\ tasks[u].pc = "written"
        /\ DbGet(songs, tasks[u].id) # {}
        /\ DbGet(songs, tasks[t].id) = {}

\* C11: a call in which invocations of handleAddSong have failed (fetch or
\* metadata extraction) and no folder listing has failed does not end with the
\* failure notice, and once all its invocations have settled it has emitted
\* the success notice and set the last-synced value
C11_FileFailureSwallowed ==
    \A c \in DOMAIN calls :
        LET mine == {t \in DOMAIN tasks : tasks[t].call = c}
        IN  (/\ \E t \in mine \cap SongTasks : tasks[t].pc = "rejected"
             /\ \A t \in mine \cap FolderTasks : tasks[t].pc # "rejected")
            => /\ calls[c].state # "rejected"
               /\ calls[c].error = 0
               /\ (\A t \in mine : ~InFlight(t) /\ tasks[t].pc # "all")
                      => calls[c].notify = 1

\* the calls that emit the success notice in the step
Succeeding ==
    {c \in DOMAIN calls' :
        calls'[c].notify = 1 /\ (c \in DOMAIN calls => calls[c].notify = 0)}

\* C29: a step in which a call emits the success notice sets the last-synced
\* value, to the value of that call; every other step (a call that reports
\* a failure, an invocation that goes on, an edit, a deletion, a change on
\* the Drive) leaves it as it is; no call emits the success notice twice
C29_LastUpdatedOncePerSuccess ==
    /\ [](\A c \in DOMAIN calls : calls[c].notify <= 1)
    /\ [][/\ \A c \in Succeeding : lastUpdated' = c
          /\ Succeeding = {} => lastUpdated' = lastUpdated]_vars

\* a call has ended with the success notice and a later one with the failure
\* notice: the last-synced value is still that of the first
C29_Witness ==
    \E c1 \in DOMAIN calls, c2 \in DOMAIN calls :
        /\ c1 < c2
        /\ calls[c1].state = "fulfilled" /\ calls[c1].notify = 1
        /\ calls[c2].state = "rejected" /\ calls[c2].error = 1
        /\ lastUpdated = c1

\* C30: whenever the loading flag is set, it is cleared again later, so that
\* the upload control is enabled again, whether the call that set it ends
\* with the success notice or with the failure notice
C30_LoadingFlagCleared ==
    loadingNewSongs ~> ~loadingNewSongs

----------------------------------------------------------------------------
(* Properties of the cover cache *)

\* a step of the effect of line 128
RefreshStep == allSongs' # allSongs

\* the entries of the cache for song id
CoverEntries(stc, id) == {e \in stc : e.id = id}

\* C12: when the effect runs for a song whose lastEditedUtc is greater than
\* the timestamp of its cache entry, the handle of that entry is revoked and
\* afterwards the cache has no entry with the old timestamp for the song: it
\* has an entry with a new handle if the song has cover bytes, none otherwise
C12_StaleEntryReleased ==
    [][RefreshStep =>
        \A e \in songToCover, r \in allSongs'.rows :
            (r.id = e.id /\ r.lastEditedUtc > e.lastUpdatedUtc) =>
                /\ objectURLs'[e.cover].revoked >= 1
                /\ \A n \in CoverEntries(songToCover', r.id) :
                      n.lastUpdatedUtc # e.lastUpdatedUtc /\ n.cover # e.cover
                /\ r.cover # Undefined => CoverEntries(songToCover', r.id) # {}
                /\ r.cover = Undefined => CoverEntries(songToCover', r.id) = {}]_vars

\* C13: a handle that an entry of the cache holds has not been revoked, no
\* handle has been revoked twice, and a handle that no entry holds any more
\* has been revoked once
C13_HandlesReleasedOnce ==
    \A h \in DOMAIN objectURLs :
        /\ objectURLs[h].revoked < 2
        /\ (\E e \in songToCover : e.cover = h) => objectURLs[h].revoked = 0
        /\ (\A e \in songToCover : e.cover # h) => objectURLs[h].revoked = 1

\* C14: every key of the cache is the id of a delivered song, and when the
\* effect runs after a song has been deleted, the handle of its entry is
\* revoked (once) and the entry is gone
C14_DeletedSongEntryDropped ==
    /\ [](\A e \in songToCover : \E r \in allSongs.rows : r.id = e.id)
    /\ [][RefreshStep =>
            \A e \in songToCover :
                (\A r \in allSongs'.rows : r.id # e.id) =>
                    /\ CoverEntries(songToCover', e.id) = {}
                    /\ objectURLs'[e.cover].revoked = 1]_vars

\* a song that had a cache entry was deleted, the table was delivered
\* without it, its handle has been revoked and its entry is gone
C14_Witness ==
    \E h \in DOMAIN objectURLs :
        LET id == objectURLs[h].blob[2]
        IN  /\ objectURLs[h].revoked = 1
            /\ id \in userDeleted
            /\ allSongs.loaded
            /\ \A r \in allSongs.rows : r.id # id
            /\ CoverEntries(songToCover, id) = {}

\* C15: after the effect has run, every delivered song with cover bytes has
\* an entry whose timestamp is the song's lastEditedUtc, and a song without
\* cover bytes has no entry that the run has created
C15_EntryForEveryCover ==
    [][RefreshStep =>
        \A r \in allSongs'.rows :
            /\ r.cover # Undefined =>
                  \E e \in songToCover' :
                      e.id = r.id /\ e.lastUpdatedUtc = r.lastEditedUtc
            /\ r.cover = Undefined =>
                  CoverEntries(songToCover', r.id) \subseteq songToCover]_vars

----------------------------------------------------------------------------
(* Properties of filterSongs *)

\* the comparison a rule names, on a value of the attribute
RuleHolds(rule, value) ==
    CASE rule.comparison = "is" -> value = rule.data
      [] rule.comparison = "is not" -> value # rule.data
      [] rule.comparison = "includes" ->
            \E i \in 1..(Len(value) + 1), j \in 0..Len(value) :
                SubSeq(value, i, j) = rule.data
      [] rule.comparison = "does not include" ->
            \A i \in 1..(Len(value) + 1), j \in 0..Len(value) :
                SubSeq(value, i, j) # rule.data

\* the value the song has for the attribute of the rule
RuleValue(rule, song) == song[ToLowerCase(rule.attribute)]

\* the rules of the album whose attribute the song lacks
RulesLacking(album, song) ==
    {i \in DOMAIN album.rules : Falsy(RuleValue(album.rules[i], song))}

\* C16: for a song that has a value for every attribute the rules name,
\* filterSongs includes the song in OR mode exactly when the comparison of
\* some rule is true and in AND mode exactly when that of every rule is true
C16_ModeSemantics ==
    LET album == filterIn.album
        song == filterIn.song
    IN  (filterOut.done /\ RulesLacking(album, song) = {}) =>
            filterOut.included =
                IF album.followAllRules
                THEN \A i \in DOMAIN album.rules : RuleHolds(album.rules[i], RuleValue(album.rules[i], song))
                ELSE \E i \in DOMAIN album.rules : RuleHolds(album.rules[i], RuleValue(album.rules[i], song))

\* OR mode, two rules, only the second one true: the song is included
C16_Witness ==
    LET album == filterIn.album
        song == filterIn.song
    IN  /\ filterOut.done /\ filterOut.included
        /\ ~album.followAllRules /\ Len(album.rules) = 2
        /\ RulesLacking(album, song) = {}
        /\ ~RuleHolds(album.rules[1], RuleValue(album.rules[1], song))
        /\ RuleHolds(album.rules[2], RuleValue(album.rules[2], song))
        /\ album.rules[2].comparison = "includes" /\ album.rules[2].data # song.title

\* C17: a song that lacks the attribute of one of the rules is not included,
\* in either mode, wherever the rule stands and whatever the others give
C17_MissingAttributeRejects ==
    (filterOut.done /\ RulesLacking(filterIn.album, filterIn.song) # {})
        => ~filterOut.included

\* C18: an album without rules includes the song when followAllRules is
\* true and does not include it when followAllRules is false
C18_EmptyRules ==
    (filterOut.done /\ filterIn.album.rules = <<>>)
        => filterOut.included = filterIn.album.followAllRules

\* filterSongs has included the song for an album without rules
C18_Witness ==
    /\ filterOut.done /\ filterOut.included
    /\ filterIn.album.rules = <<>> /\ filterIn.album.followAllRules

\* the orders in which n rules can stand
RuleOrders(n) ==
    {p \in [1..n -> 1..n] : \A i \in 1..n, j \in 1..n : p[i] = p[j] => i = j}

\* the album with its rules in the order p
Reordered(album, p) ==
    [album EXCEPT !.rules = [i \in 1..Len(album.rules) |-> album.rules[p[i]]]]

\* C33: with followAllRules true, filterSongs gives for every order of the
\* rules of the album the answer it gives for the order they stand in
C33_AndModeOrderIndependent ==
    (filterOut.done /\ filterIn.album.followAllRules) =>
        \A p \in RuleOrders(Len(filterIn.album.rules)) :
            (filterIn.song \in filterSongs(Reordered(filterIn.album, p), {filterIn.song}))
                = filterOut.included

\* AND mode, two rules on different attributes, the first one true and the
\* second one false: the song is not included
C33_Witness ==
    LET album == filterIn.album
        song == filterIn.song
    IN  /\ filterOut.done /\ ~filterOut.included
        /\ album.followAllRules /\ Len(album.rules) = 2
        /\ album.rules[1].attribute # album.rules[2].attribute
        /\ RulesLacking(album, song) = {}
        /\ RuleHolds(album.rules[1], RuleValue(album.rules[1], song))
        /\ ~RuleHolds(album.rules[2], RuleValue(album.rules[2], song))

----------------------------------------------------------------------------
(* Properties of playSong *)

\* a step in which playSong() without a song has loaded a song
NextTrackLoads == audioSrc' # audioSrc /\ loadedBy' = "next"

\* a step in which playSong has reported that there are no songs to play
NoSongsStep == notice' = NoSongs /\ songs' = songs

\* C19: when playSong() without a song (next control, album row or ended
\* event) loads a song right after another such selection had loaded one and
\* the scope holds at least two songs, the song differs from the one loaded
\* before; with a scope of one song it loads that song, and no selection
\* with a scope that is not empty reports an error
C19_NoImmediateRepeat ==
    [][/\ NextTrackLoads =>
            /\ (loadedBy = "next" /\ Cardinality(FilteredSongs(currentAlbum')) >= 2) =>
                  \A o \in currentSong, n \in currentSong' : n.id # o.id
            /\ Cardinality(FilteredSongs(currentAlbum')) = 1 =>
                  currentSong' = FilteredSongs(currentAlbum')
       /\ NoSongsStep => FilteredSongs(currentAlbum') = {}]_vars

\* C20: a playSong that finds no song to play leaves the loaded song, the
\* audio source, the play/pause flag and the revocation state of the handle
\* of the audio source as they were
C20_EmptyScopeKeepsState ==
    [][NoSongsStep =>
        /\ currentSong' = currentSong
        /\ audioSrc' = audioSrc
        /\ playing' = playing
        /\ audioSrc # 0 => objectURLs'[audioSrc].revoked = objectURLs[audioSrc].revoked]_vars

\* the object URLs made for the audio element that have not been revoked
LiveAudioHandles == {h \in AudioHandles(objectURLs) : objectURLs[h].revoked = 0}

\* C21: at most one object URL made for the audio element is un-revoked at
\* any moment, the handle that is audio.src has not been revoked, and a step
\* that gives audio.src a new handle has revoked the handle it had before
C21_OnePlaybackHandle ==
    /\ [](Cardinality(LiveAudioHandles) <= 1)
    /\ [](audioSrc # 0 => objectURLs[audioSrc].revoked = 0)
    /\ [][(audioSrc' # audioSrc /\ audioSrc # 0) =>
              objectURLs'[audioSrc].revoked >= 1]_vars

\* C24: the playing flag is true only while a song is loaded, and while no
\* song is loaded no step changes the flag unless it loads a song (the pause
\* and play icons do nothing then)
C24_PlayingOnlyWhenLoaded ==
    /\ [](playing => currentSong # {})
    /\ [][(currentSong = {} /\ currentSong' = {}) => playing' = playing]_vars

\* a loaded song has been paused with the pause icon: the play icon can
\* resume it
C24_Witness ==
    /\ ~playing /\ ~endedQueued
    /\ currentSong # {} /\ audioSrc # 0
    /\ objectURLs[audioSrc].revoked = 0
    /\ ENABLED Resume

----------------------------------------------------------------------------
(* Properties of the albums list *)

\* C22: a click on a song row, whatever was loaded before and whatever the
\* albums list and the table hold, ends with that song as currentSong, its
\* blob behind an un-revoked audio.src, and the playing flag set
C22_ExplicitSelectionLoads ==
    [][\A song \in allSongs.rows :
          PlayRow(song) =>
              /\ currentSong' = {song}
              /\ playing'
              /\ audioSrc' \in DOMAIN objectURLs'
              /\ objectURLs'[audioSrc'].blob = song.blob
              /\ objectURLs'[audioSrc'].revoked = 0]_vars

\* C23: once the table has been delivered, the songs playSong draws from
\* while currentAlbum is '' are all the delivered songs, whatever albums
\* the list holds
C23_EmptyScopeIsAllSongs ==
    (allSongs.loaded /\ currentAlbum = <<>>) =>
        FilteredSongs(currentAlbum) = allSongs.rows

\* C25: the names of the albums list are pairwise distinct
C25_AlbumNamesDistinct ==
    \A i \in DOMAIN albums, j \in DOMAIN albums :
        albums[i].name = albums[j].name => i = j

\* an album has been renamed to a name that no other album of the list has
C25_Witness ==
    /\ Len(albums) = 2
    /\ notice = AlbumUpdated
    /\ albums[1].name = <<"B">> /\ albums[2].name = <<>>

\* C26: a create submit with the name of an album of the list, and an edit
\* submit with the name of another album of the list, report 'Album already
\* exists' and leave the list as it is; an edit submit that keeps the name
\* of its album is accepted and stores the form
C26_DuplicateNameRejected ==
    [][/\ \A form \in AlbumForms :
             (CreateAlbum(form) /\ \E i \in DOMAIN albums : albums[i].name = form.name)
                 => (albums' = albums /\ notice' = AlbumExists)
       /\ \A idx \in DOMAIN albums, form \in AlbumForms :
             EditAlbum(idx, form) =>
                 /\ (\E i \in DOMAIN albums : i # idx /\ albums[i].name = form.name)
                        => (albums' = albums /\ notice' = AlbumExists)
                 /\ albums[idx].name = form.name
                        => (albums' = [albums EXCEPT ![idx] = form]
                            /\ notice' = AlbumUpdated)]_vars

\* an edit that kept the name of its album and changed its rules has been
\* stored, next to another album
C26_Witness ==
    /\ Len(albums) = 2
    /\ notice = AlbumUpdated
    /\ albums[1].name = <<"A">> /\ albums[1].followAllRules /\ albums[1].rules = <<>>
    /\ albums[2].name = <<"B">>

----------------------------------------------------------------------------
(* Properties of formatSongToStorage *)

\* the name without its extension: everything before the last dot, the
\* whole name when it has no dot
RECURSIVE BeforeLastDot(_)
BeforeLastDot(name) ==
    IF \A i \in DOMAIN name : name[i] # "." THEN name
    ELSE IF name[Len(name)] = "." THEN SubSeq(name, 1, Len(name) - 1)
    ELSE BeforeLastDot(SubSeq(name, 1, Len(name) - 1))

\* the step in which the formatted record is added to the table
FormatStep == songs = {} /\ songs' # {}

\* C27: every row of the table has a title that is not empty, after the
\* ingestion of a file of any name and tag title and after any edit
C27_TitleNonEmpty ==
    \A r \in songs : r.title # <<>>

\* C28: when the tags of the file have no title, the title stored by either
\* page is the name of the file up to its last dot
C28_TitleIsNameWithoutExtension ==
    [][(FormatStep /\ Falsy(formatIn.title)) =>
          \A r \in songs' : r.title = BeforeLastDot(formatIn.name)]_vars

----------------------------------------------------------------------------
(* Properties of the uploader page *)

\* the picked files of call c
CallFiles(c) == {t \in DOMAIN tasks : tasks[t].call = c}

\* C34: a file of a call is looked up or written only when the fetch and the
\* parse of every file of the call have succeeded; a call with a failed file
\* has reported one error and none of its files is looked up or written; the
\* table changes only through the write of a file that was looked up; the
\* lookup leads to a write exactly when it finds no row or a row whose
\* lastEditedUtc is smaller than the file's; and the write adds the record
\* when the lookup found no row and the id is still free and is an update of
\* the row when the lookup found one
C34_WritesAfterAllParsed ==
    /\ [](\A c \in DOMAIN calls :
            /\ (\E t \in CallFiles(c) : tasks[t].pc \in {"get", "write", "written", "skipped"})
                  => /\ calls[c].state = "fulfilled" /\ calls[c].error = 0
                     /\ \A u \in CallFiles(c) : tasks[u].pc \notin {"fetch", "rejected"}
            /\ (\E t \in CallFiles(c) : tasks[t].pc = "rejected")
                  => calls[c].state = "rejected" /\ calls[c].error = 1)
    /\ [][/\ songs' # songs =>
                \E t \in DOMAIN tasks : tasks[t].pc = "write" /\ tasks'[t].pc = "written"
          /\ \A t \in DOMAIN tasks :
                /\ (tasks[t].pc = "get" /\ tasks'[t].pc # "get") =>
                       LET rows == DbGet(songs, tasks[t].id)
                       IN  /\ songs' = songs
                           /\ tasks'[t].pc \in {"write", "skipped"}
                           /\ tasks'[t].pc = "write" <=>
                                 \A r \in rows : r.lastEditedUtc < tasks[t].lastEditedUtc
                           /\ tasks'[t].pc = "write" =>
                                 tasks'[t].duplicate = LastEdited(rows)
                /\ (tasks[t].pc = "write" /\ tasks'[t].pc = "written") =>
                       LET rows == DbGet(songs, tasks[t].id)
                       IN  /\ \A r \in songs' : r.id # tasks[t].id => r \in songs
                           /\ \A r \in songs : r.id # tasks[t].id => r \in songs'
                           /\ (tasks[t].duplicate = 0 /\ rows = {})
                                 => DbGet(songs', tasks[t].id) = {AppStored(tasks[t])}
                           /\ (tasks[t].duplicate = 0 /\ rows # {})
                                 => DbGet(songs', tasks[t].id) = rows
                           /\ (tasks[t].duplicate # 0 /\ rows # {})
                                 => DbGet(songs', tasks[t].id) = {AppStored(tasks[t])}
                           /\ (tasks[t].duplicate # 0 /\ rows = {})
                                 => DbGet(songs', tasks[t].id) = {}]_vars

\* one call has failed on a file while its other file was fetched and parsed,
\* and has written nothing; another call has updated the row of file a, which
\* the table held with a smaller lastEditedUtc, and has added file b
C34_Witness ==
    /\ \E c \in DOMAIN calls :
          /\ calls[c].state = "rejected"
          /\ \E t \in CallFiles(c) : tasks[t].pc = "rejected"
          /\ \E t \in CallFiles(c) : tasks[t].pc = "resolved"
    /\ \E t \in DOMAIN tasks, u \in DOMAIN tasks :
          /\ tasks[t].call = tasks[u].call
          /\ tasks[t].id = "a" /\ tasks[t].pc = "written"
          /\ tasks[t].lastEditedUtc > UploadedRow.lastEditedUtc
          /\ \E r \in songs : r.id = "a" /\ r.lastEditedUtc = tasks[t].lastEditedUtc
          /\ tasks[u].id = "b" /\ tasks[u].pc = "written"
          /\ \E r \in songs : r.id = "b"

----------------------------------------------------------------------------
(* Properties of the edit form *)

\* the fields of a row that the edit form does not hold
KeptFields == {"id", "blob", "cover", "year", "lastEditedUtc"}

\* C32: a submitted edit form leaves id, blob, cover, year and lastEditedUtc
\* of every row as they are and neither adds nor removes a row; the effect
\* keeps, unrevoked, the cover entry of a row that is not newer than the
\* entry; and an invocation of handleAddSong that looks the row up and finds
\* its lastEditedUtc equal to the document's ends there and writes nothing
C32_EditKeepsRecord ==
    /\ [][\A id \in FileIds, title \in EditTitles :
             EditSong(id, title) =>
                 /\ {r.id : r \in songs'} = {r.id : r \in songs}
                 /\ \A r \in songs : \E r2 \in songs' :
                        /\ \A f \in KeptFields : r2[f] = r[f]
                        /\ r.id # id => r2 = r]_vars
    /\ [][allSongs' # allSongs =>
             \A e \in songToCover :
                 (\E r \in songs : r.id = e.id /\ r.lastEditedUtc <= e.lastUpdatedUtc)
                     => /\ e \in songToCover'
                        /\ objectURLs'[e.cover] = objectURLs[e.cover]]_vars
    /\ [][\A t \in DOMAIN tasks :
             /\ (/\ tasks[t].pc = "get" /\ tasks'[t].pc # "get"
                  /\ \E r \in songs : r.id = tasks[t].id
                                         /\ r.lastEditedUtc = tasks[t].lastEditedUtc)
                    => (tasks'[t].pc = "skipped" /\ songs' = songs)
             /\ tasks[t].pc = "skipped" => tasks'[t].pc = "skipped"]_vars

\* song a carries the title of the edit form and its cover entry of the
\* first delivery, unrevoked, after the edit was delivered, and an invocation
\* for the same document and lastEditedUtc has ended at the lookup
C32_Witness ==
    /\ allSongs.loaded /\ allSongs.rows = songs
    /\ \E r \in songs :
          /\ r.id = "a" /\ r.title = <<"E">> /\ r.cover # Undefined
          /\ \E e \in songToCover :
                /\ e.id = r.id /\ e.lastUpdatedUtc = r.lastEditedUtc
                /\ objectURLs[e.cover].revoked = 0
          /\ \E t \in DOMAIN tasks :
                /\ tasks[t].id = r.id /\ tasks[t].pc = "skipped"
                /\ tasks[t].lastEditedUtc = r.lastEditedUtc

----------------------------------------------------------------------------
(* Properties of a scope whose album is gone *)

\* currentAlbum names an album that the list does not hold
ScopeGone == currentAlbum # <<>> /\ FindIndex(albums, currentAlbum) = 0

\* C31: while currentAlbum names an album that the list no longer holds,
\* playSong draws from all the delivered songs, and the next control and
\* the ended event report no error when the table holds a song
C31_MissingAlbumIsAllSongs ==
    /\ []((allSongs.loaded /\ ScopeGone) => FilteredSongs(currentAlbum) = allSongs.rows)
    /\ [][(/\ ScopeGone /\ allSongs.loaded /\ allSongs.rows # {}
            /\ currentAlbum' = currentAlbum /\ albums' = albums)
              => notice' # NoSongs]_vars

\* album A, whose rules match song a only, was the active album and is gone
\* from the list: the next control or the ended event has loaded song b
C31_Witness ==
    /\ ScopeGone /\ currentAlbum = <<"A">>
    /\ currentSong = {PersistedRow("b")}
    /\ loadedBy = "next" /\ playing

----------------------------------------------------------------------------
(* Properties of Modal *)

\* mounted and visible, body scroll locked
ModalShown(m) == ~modal[m].modalDeleted /\ modal[m].pseudoShow /\ modal[m].locked

\* hidden and unmounted, body scroll unlocked
ModalGone(m) == modal[m].modalDeleted /\ ~modal[m].pseudoShow /\ ~modal[m].locked

\* C35: from any point on from which show stays true the Modal is eventually
\* mounted and visible with the body scroll locked, and from any point on from
\* which show stays false it is eventually hidden and unmounted with the body
\* scroll unlocked
C35_ModalFollowsShow ==
    \A m \in Modals :
        /\ []([]modal[m].show => <>ModalShown(m))
        /\ []([]~modal[m].show => <>ModalGone(m))

====
